---- MODULE Spec2Model ----
(***************************************************************************)
(* Price Scout: the concurrent multi-vendor fetch engine.                  *)
(*                                                                         *)
(*   scrape_mpn_single   one MPN fanned out to every registered adapter    *)
(*                       with asyncio.gather(return_exceptions=True)       *)
(*   fallback adapters   HTTP scraper first, browser scraper second        *)
(*   batch_scrape_mpns   one task per MPN behind asyncio.Semaphore(5)      *)
(*                                                                         *)
(*   adapter lookups     one scrape(mpn) of one adapter on one vendor page *)
(*   lowest price        write_results_to_csv and the dashboard Best Price *)
(*   price history       process_and_save_result on the SQLite tables      *)
(*   dashboard           the single tab and the batch tab of app.py        *)
(*   main --csv          read_mpns_from_csv and what main does with it     *)
(*                                                                         *)
(* A run of the model is one entry point: Init is the state before it, a   *)
(* first action picks the entry point and its inputs, and the following    *)
(* actions are the steps of that entry point; the dashboard's single tab   *)
(* continues a finished scrape_mpn_single call.                            *)
(***************************************************************************)
EXTENDS Integers, Sequences, FiniteSets, TLC

\* ---------------------------------------------------------------- bounds
\* Number of adapters taken from the head of the registered list.
NumAdapters == 3
\* Number of MPNs handed to batch_scrape_mpns (more than the semaphore admits).
NumMpns == 6
\* Number of distinct worlds (what each vendor answers for each MPN) of a batch.
NumWorlds == 4
\* Number of distinct MPN strings in the batch input (later rows repeat them).
NumDistinctMpns == 4
\* direct process_and_save_result calls in one run
MaxCalls == 3
\* data rows of a CSV input file
MaxRows == 2
\* MPNs in the dashboard's batch list
MaxTabMpns == 2
MaxHist == 3

\* ------------------------------------------------------- program constants
\* asyncio.Semaphore(5) in batch_scrape_mpns.
SemaphoreLimit == 5

Adapters == 1..NumAdapters
Mpns == 1..NumMpns

\* ------------------------------------------------------------ data model
\* price=None of a PriceResult.
NoPrice == -1

\* models.PriceResult, reduced to the fields the coordinators read.
PriceResult(v, found, price) ==
    [kind |-> "PriceResult", vendor_id |-> v, found |-> found, price |-> price]

\* The not_found class attribute of every adapter.
not_found(v) == PriceResult(v, FALSE, NoPrice)

\* Python's None, as some adapters return it for a product they did not find.
NoneValue == [kind |-> "None", vendor_id |-> 0, found |-> FALSE, price |-> NoPrice]

\* An exception instance, as gather(return_exceptions=True) hands it back.
ExceptionObj == [kind |-> "Exception", vendor_id |-> 0, found |-> FALSE, price |-> NoPrice]

\* A task that has not produced anything yet.
Pending == [kind |-> "Pending", vendor_id |-> 0, found |-> FALSE, price |-> NoPrice]

\* isinstance(result, Exception)
IsException(r) == r.kind = "Exception"

\* bool(result): None is falsy, a pydantic model (found or not) and an
\* exception instance are truthy.
Truthy(r) == r.kind # "None"

\* The price a vendor shows for the product, by the strategy that read it.
PriceSeen(v, strategy) ==
    90 + 5 * v + (IF strategy = "secondary" THEN 1 ELSE 0)

\* What one scrape() call of vendor v ends with, as a value ("raise" is the
\* exception the call raised; "found_zero" is a product page whose price
\* text parses to 0).
OutcomeValue(v, strategy, o) ==
    CASE o = "found"     -> PriceResult(v, TRUE, PriceSeen(v, strategy))
      [] o = "found_zero" -> PriceResult(v, TRUE, 0)
      [] o = "not_found" -> not_found(v)
      [] o = "none"      -> NoneValue
      [] o = "raise"     -> ExceptionObj

\* ------------------------------------------------------------- registries
\* The scraper lists of scrape_mpn_single: the default list mixes direct
\* adapters (Digicor, Mwave) with fallback adapters (Scorptec, PC Case Gear,
\* JW Computers, Umart); detailed=True and utils.py register direct adapters
\* only.
Variants == {"default", "detailed", "utils"}

\* Digicor, Scorptec, Mwave, PC Case Gear, JW Computers, Umart, eBay AU.  The
\* eBay adapter wraps a single browser scraper in the same try/except as the
\* second half of a fallback adapter.
DefaultKinds ==
    <<"plain", "fallback", "plain", "fallback", "fallback", "fallback", "single">>

Kind(v, i) ==
    IF v = "default" THEN DefaultKinds[i] ELSE "plain"

\* How a direct adapter's scrape() can end.  The adapters of scraper.py
\* return a PriceResult or raise; the first-generation adapters that utils.py
\* registers return None for a miss.
PlainOutcomes(v) ==
    IF v = "utils"
    THEN {"found", "none", "raise"}
    ELSE {"found", "found_zero", "not_found", "raise"}

\* How the HTTP or browser scraper inside a fallback adapter can end.
StrategyOutcomes == {"found", "not_found", "raise"}

\* ------------------------------------------------------- vendor responses
\* Text is a sequence of characters. The alphabet is small but has what the
\* adapters' comparisons look at: two letters in both cases, a third letter
\* and the blank that separates a label from the value after it.
NoText == <<>>

LowerChar(c) ==
    CASE c = "A" -> "a"
      [] c = "B" -> "b"
      [] OTHER   -> c

\* str.lower()
lower(s) == [k \in 1..Len(s) |-> LowerChar(s[k])]

\* Python's 'needle in haystack' on strings
Contains(haystack, needle) ==
    \E k \in 0..(Len(haystack) - Len(needle)) :
        SubSeq(haystack, k + 1, k + Len(needle)) = needle

\* text.split()[-1]: the last blank-separated token (text has a token)
RECURSIVE LastTokenFrom(_, _)
LastTokenFrom(s, k) ==
    IF k = 0 \/ s[k] = " " THEN SubSeq(s, k + 1, Len(s))
    ELSE LastTokenFrom(s, k - 1)

LastToken(s) == LastTokenFrom(s, Len(s))

\* The MPN the caller asks for.
InputMpn == <<"a", "b">>

\* What a vendor may have recorded as the product's MPN/SKU: the MPN itself,
\* the MPN in the other case, the MPN behind a label, a longer part number
\* that contains it, an unrelated one, or no such element on the page.
SkuTexts ==
    { NoText,
      <<"a", "b">>,
      <<"A", "B">>,
      <<"c", " ", "a", "b">>,
      <<"a", "b", "c">>,
      <<"c", "a">> }

\* Listing titles: one names a longer part number containing the MPN, one
\* does not mention it.
TitleTexts == { <<"a", "b", "c">>, <<"c", "a">> }

\* The price the vendor shows: none (NoPrice), a negative amount, zero, or a
\* positive amount.
PricesShown == {NoPrice, -5, 0, 100}

Abs(n) == IF n < 0 THEN -n ELSE n

\* A vendor response, reduced to what the adapters read from it. A response
\* without a product has no SKU and no price either.
Pages ==
    { p \in [ status  : {"ok", "error"},  \* "error": non-200, timeout, blocked
              product : BOOLEAN,          \* a first product / hit / item exists
              sku     : SkuTexts,         \* the vendor-recorded MPN of it
              title   : TitleTexts,       \* its listing title
              price   : PricesShown ] :
        ~p.product => (p.sku = NoText /\ p.price = NoPrice) }

NoPage == [status |-> "none", product |-> FALSE, sku |-> NoText,
           title |-> NoText, price |-> NoPrice]

\* ------------------------------------------------------ adapter results
NoUrl == 0

\* models.PriceResult with the fields a caller reads
FullResult(v, url, mpn, price, found) ==
    [kind |-> "PriceResult", vendor_id |-> v, url |-> url, mpn |-> mpn,
     price |-> price, found |-> found]

\* scrape() returned None
ReturnedNone ==
    [kind |-> "None", vendor_id |-> "", url |-> NoUrl, mpn |-> NoText,
     price |-> NoPrice, found |-> FALSE]

\* scrape() raised
RaisedError ==
    [kind |-> "Exception", vendor_id |-> "", url |-> NoUrl, mpn |-> NoText,
     price |-> NoPrice, found |-> FALSE]

NoReturn ==
    [kind |-> "Pending", vendor_id |-> "", url |-> NoUrl, mpn |-> NoText,
     price |-> NoPrice, found |-> FALSE]

\* Two dashboard sessions share the cached DatabaseManager.
Sessions == {1, 2}

\* add_product's None, and "not called yet"
NoneId == 0
NoId == -1

VARIABLES
    sq_pc,        \* scrape_mpn_single: "idle", "gather", "done", "raised"
    variant,      \* which scraper list the call registered
    t_stage,      \* per adapter task: "new", "running", "primary", "secondary", "done"
    prim_out,     \* per adapter: what the primary scraper ended with
    sec_out,      \* per adapter: what the secondary scraper ended with
    prim_calls,   \* per adapter: number of primary scrape() calls
    sec_calls,    \* per adapter: number of secondary scrape() calls
    t_result,     \* per adapter: what its scrape() task ended with
    order,        \* adapter indices in the order their tasks completed
    results,      \* the list scrape_mpn_single returns
    log,          \* the levels scrape_mpn_single logged, one per adapter
    b_pc,         \* batch_scrape_mpns: "idle", "gather", "done", "raised"
    world,        \* which answers the vendors give during the batch
    b_state,      \* per MPN task: "new", "waiting", "running", "returned", "raised"
    sem,          \* semaphore._value
    all_results,  \* what the batch gather handed back, by task index
    valid_results,\* the list batch_scrape_mpns returns
    b_errors,     \* number of "Batch task failed" error log entries
    out_of_order  \* some MPN task finished before one that precedes it

svars == <<sq_pc, variant, t_stage, prim_out, sec_out, prim_calls, sec_calls,
           t_result, order, results, log>>
bvars == <<b_pc, world, b_state, sem, all_results, valid_results, b_errors,
           out_of_order>>

VARIABLES
    lk_pc,        \* one adapter's scrape(mpn): "idle", "done"
    lk_adapter,   \* which adapter class was called
    lk_page,      \* what the vendor answered
    lk_ret,       \* what scrape(mpn) ended with
    cw_pc,        \* write_results_to_csv / Best Price on one MPN: "idle", "done"
    cw_dict,      \* the per-vendor results of that MPN, in registration order
    cw_row,       \* the lowest_price* columns write_results_to_csv wrote
    cw_best,      \* the 'Best Price' the dashboard computed
    db_pc,        \* direct process_and_save_result calls: "idle", "calls"
    products,     \* table products: the MPNs, row id = position
    prices,       \* table prices: the rows, row id = position
    clock,        \* datetime.now(), one tick per reading
    db_calls,     \* number of process_and_save_result calls made directly
    db_last,      \* the last direct call: its arguments and what it did
    dash_pc,      \* dashboard single tab: "idle", "shown", "aborted"
    dash_rows,    \* the rows of the displayed dataframe
    csv_pc,       \* main's CSV branch: "idle", "done", "raised"
    csv_file,     \* the CSV file handed to --csv
    rows_read,    \* number of data rows read_mpns_from_csv iterated over
    dispatched,   \* number of vendor lookups the branch started
    csv_out,      \* the rows written to the output file
    tab_pc,       \* dashboard batch tab: "idle", "progress", "scrape", "done", "aborted"
    tab_world,    \* which answers the vendors give during the tab's run
    tab_n,        \* len(mpns_to_scan)
    tab_i,        \* the loop index i of enumerate(mpns_to_scan)
    progress,     \* numerator last handed to progress_bar.progress
    finished,     \* number of MPNs whose loop body ran to its end
    tab_rows,     \* all_results of the batch tab
    ses_pc,       \* per dashboard session: where its process_and_save_result is
    ses_price,    \* per session: the price it was called with
    ses_op,       \* per session: what it decided after reading the history
    ses_pid,      \* per session: what get_or_create_product returned
    ses_rows,     \* rows of the key when the sessions started
    ut_pc,        \* a direct update_price_timestamp call: "idle", "done"
    ut_before,    \* the tables before that call
    ut_call,      \* its arguments
    ut_ret        \* its return value

lvars == <<lk_pc, lk_adapter, lk_page, lk_ret>>
cvars == <<cw_pc, cw_dict, cw_row, cw_best>>
dvars == <<db_pc, products, prices, clock, db_calls, db_last>>
hvars == <<dash_pc, dash_rows>>
fvars == <<csv_pc, csv_file, rows_read, dispatched, csv_out>>
pvars == <<tab_pc, tab_world, tab_n, tab_i, progress, finished, tab_rows>>
sesvars == <<ses_pc, ses_price, ses_op, ses_pid, ses_rows>>
utvars == <<ut_pc, ut_before, ut_call, ut_ret>>
xvars == <<sesvars, utvars>>
\* everything outside scrape_mpn_single and batch_scrape_mpns
ovars == <<lvars, cvars, dvars, hvars, fvars, pvars, xvars>>
vars == <<svars, bvars, lvars, cvars, dvars, hvars, fvars, pvars, xvars>>

\* No entry point has been called yet.
Idle ==
    /\ sq_pc = "idle"
    /\ b_pc = "idle"
    /\ lk_pc = "idle"
    /\ cw_pc = "idle"
    /\ db_pc = "idle"
    /\ dash_pc = "idle"
    /\ csv_pc = "idle"
    /\ tab_pc = "idle"
    /\ \A c \in DOMAIN ses_pc : ses_pc[c] = "idle"
    /\ ut_pc = "idle"

\* ------------------------------------------------------------------ Init
NoTasks == [i \in Adapters |-> "new"]

Init ==
    /\ sq_pc = "idle"
    /\ variant = "none"
    /\ t_stage = NoTasks
    /\ prim_out = [i \in Adapters |-> Pending]
    /\ sec_out = [i \in Adapters |-> Pending]
    /\ prim_calls = [i \in Adapters |-> 0]
    /\ sec_calls = [i \in Adapters |-> 0]
    /\ t_result = [i \in Adapters |-> Pending]
    /\ order = <<>>
    /\ results = <<>>
    /\ log = <<>>
    /\ b_pc = "idle"
    /\ world = 0
    /\ b_state = [m \in Mpns |-> "new"]
    /\ sem = SemaphoreLimit
    /\ all_results = <<>>
    /\ valid_results = <<>>
    /\ b_errors = 0
    /\ out_of_order = FALSE
    /\ lk_pc = "idle"
    /\ lk_adapter = "none"
    /\ lk_page = NoPage
    /\ lk_ret = NoReturn
    /\ cw_pc = "idle"
    /\ cw_dict = <<>>
    /\ cw_row = [lowest_price |-> NoPrice, lowest_price_vendor |-> "",
                 lowest_price_url |-> NoUrl, vendor_price |-> <<>>]
    /\ cw_best = [outcome |-> "None", price |-> NoPrice]
    /\ db_pc = "idle"
    /\ products = <<>>
    /\ prices = <<>>
    /\ clock = 0
    /\ db_calls = 0
    /\ db_last = [vendor |-> 0, found |-> FALSE, price |-> NoPrice,
                  op |-> "none", prior |-> NoPrice, rows |-> 0]
    /\ dash_pc = "idle"
    /\ dash_rows = <<>>
    /\ csv_pc = "idle"
    /\ csv_file = [has_header |-> FALSE, columns |-> {}, rows |-> <<>>]
    /\ rows_read = 0
    /\ dispatched = 0
    /\ csv_out = <<>>
    /\ tab_pc = "idle"
    /\ tab_world = 0
    /\ tab_n = 0
    /\ tab_i = 0
    /\ progress = 0
    /\ finished = 0
    /\ tab_rows = <<>>
    /\ ses_pc = [c \in Sessions |-> "idle"]
    /\ ses_price = [c \in Sessions |-> NoPrice]
    /\ ses_op = [c \in Sessions |-> "none"]
    /\ ses_pid = [c \in Sessions |-> NoId]
    /\ ses_rows = 0
    /\ ut_pc = "idle"
    /\ ut_before = [products |-> <<>>, prices |-> <<>>]
    /\ ut_call = [mpn |-> 0, vendor_name |-> 0, scraped_at |-> 0]
    /\ ut_ret = FALSE

\* ------------------------------------------------------ scrape_mpn_single
\* tasks = [scraper.scrape(mpn) for _, scraper in scrapers]; the gather starts
\* every task, and a fallback adapter's task begins by calling its HTTP scraper.
StartSingle(v) ==
    /\ Idle
    /\ sq_pc' = "gather"
    /\ variant' = v
    /\ t_stage' = [i \in Adapters |->
                     CASE Kind(v, i) = "plain"    -> "running"
                       [] Kind(v, i) = "fallback" -> "primary"
                       [] Kind(v, i) = "single"   -> "secondary"]
    /\ prim_calls' = [i \in Adapters |-> IF Kind(v, i) = "fallback" THEN 1 ELSE 0]
    /\ sec_calls' = [i \in Adapters |-> IF Kind(v, i) = "single" THEN 1 ELSE 0]
    /\ UNCHANGED <<prim_out, sec_out, t_result, order, results, log>>
    /\ UNCHANGED <<bvars, ovars>>

\* A direct adapter's scrape() returns or raises.
PlainComplete(i, o) ==
    /\ sq_pc = "gather"
    /\ t_stage[i] = "running"
    /\ o \in PlainOutcomes(variant)
    /\ t_result' = [t_result EXCEPT ![i] = OutcomeValue(i, "plain", o)]
    /\ t_stage' = [t_stage EXCEPT ![i] = "done"]
    /\ order' = Append(order, i)
    /\ UNCHANGED <<sq_pc, variant, prim_out, sec_out, prim_calls, sec_calls,
                    results, log>>
    /\ UNCHANGED <<bvars, ovars>>

\* ------------------------------------------------------- fallback adapter
\* Variant of NeedsSecondary that runs the second scraper after every primary.
NeedsSecondaryAlways(r) == TRUE

\* Variant of FallbackReturn that answers not_found whatever the second
\* scraper returned.
FallbackReturnSentinel(i, r) == not_found(i)

\* After the HTTP scraper: "if result.found: return result"; a result that is
\* not found, and an exception (caught by "except Exception"), both fall
\* through to the second scraper.
NeedsSecondary(r) == ~(r.kind = "PriceResult" /\ r.found)

\* Variant of FallbackReturn that lets the second scraper's exception (or its
\* None) through to the caller.
FallbackReturnUncaught(i, r) == r

\* Variant of RetryAfterSecondary that runs the second scraper again after a
\* miss or an exception.
RetryAfterSecondaryOnMiss(r) == ~(r.kind = "PriceResult" /\ r.found)

\* Every path after the second scraper is a return: no loop goes back to it.
RetryAfterSecondary(r) == FALSE

\* After the second scraper: "return result", or "return self.not_found" from
\* the except branch (which also catches the AttributeError of None.found).
FallbackReturn(i, r) ==
    IF r.kind = "PriceResult" THEN r ELSE not_found(i)

PrimaryComplete(i, o) ==
    /\ sq_pc = "gather"
    /\ t_stage[i] = "primary"
    /\ o \in StrategyOutcomes
    /\ LET r == OutcomeValue(i, "primary", o) IN
        /\ prim_out' = [prim_out EXCEPT ![i] = r]
        /\ IF NeedsSecondary(r)
              THEN /\ t_stage' = [t_stage EXCEPT ![i] = "secondary"]
                   /\ sec_calls' = [sec_calls EXCEPT ![i] = @ + 1]
                   /\ UNCHANGED <<t_result, order>>
              ELSE /\ t_stage' = [t_stage EXCEPT ![i] = "done"]
                   /\ t_result' = [t_result EXCEPT ![i] = r]
                   /\ order' = Append(order, i)
                   /\ UNCHANGED sec_calls
    /\ UNCHANGED <<sq_pc, variant, sec_out, prim_calls, results, log>>
    /\ UNCHANGED <<bvars, ovars>>

SecondaryComplete(i, o) ==
    /\ sq_pc = "gather"
    /\ t_stage[i] = "secondary"
    /\ o \in StrategyOutcomes
    /\ LET r == OutcomeValue(i, "secondary", o) IN
        /\ sec_out' = [sec_out EXCEPT ![i] = r]
        /\ IF RetryAfterSecondary(r)
              THEN /\ sec_calls' = [sec_calls EXCEPT ![i] = @ + 1]
                   /\ UNCHANGED <<t_stage, t_result, order>>
              ELSE /\ t_result' = [t_result EXCEPT ![i] = FallbackReturn(i, r)]
                   /\ t_stage' = [t_stage EXCEPT ![i] = "done"]
                   /\ order' = Append(order, i)
                   /\ UNCHANGED sec_calls
    /\ UNCHANGED <<sq_pc, variant, prim_out, prim_calls, results, log>>
    /\ UNCHANGED <<bvars, ovars>>

\* ---------------------------------------------------------------- gather
\* Variant of ReturnExceptionsSingle: the gather called without the flag.
ReturnExceptionsSingleOff == FALSE

\* return_exceptions=True of the gather in scrape_mpn_single.
ReturnExceptionsSingle == TRUE

\* Variant of GatherReady for a gather under a deadline that may expire at
\* any moment.
GatherReadyDeadline(done, raised, return_exceptions) == TRUE

\* asyncio.gather: the awaiter resumes when every child has finished, or,
\* without return_exceptions, as soon as one child has raised.
GatherReady(done, raised, return_exceptions) ==
    IF return_exceptions THEN done ELSE done \/ raised

\* Variant of GatherResults that leaves failed children out of the list.
GatherDropFailures(res, ord) == SelectSeq(res, LAMBDA r : r.kind # "Exception")

\* Variant of GatherResults that appends each child's result as it completes.
GatherByCompletion(res, ord) == [k \in 1..Len(ord) |-> res[ord[k]]]

\* The list gather hands back: one entry per child, at the child's index.
GatherResults(res, ord) == [k \in 1..Len(res) |-> res[k]]

\* The level scrape_mpn_single logs for one entry of the gathered list.
LogLevel(r) ==
    IF IsException(r) THEN "error"
    ELSE IF Truthy(r) THEN "info"
    ELSE "warning"

\* for (vendor, _), result in zip(scrapers, results): one log line per pair.
\* utils.py has no such loop.
LogOf(v, res) ==
    IF v = "utils" THEN <<>>
    ELSE [k \in 1..(IF Len(res) < NumAdapters THEN Len(res) ELSE NumAdapters)
            |-> LogLevel(res[k])]

AllDone == \A i \in Adapters : t_stage[i] = "done"
SomeRaised == \E i \in Adapters : t_stage[i] = "done" /\ IsException(t_result[i])

\* The code after "await asyncio.gather(...)": log each entry, return the list.
SingleReturn ==
    /\ sq_pc = "gather"
    /\ GatherReady(AllDone, SomeRaised, ReturnExceptionsSingle)
    /\ IF ~ReturnExceptionsSingle /\ SomeRaised
          THEN /\ sq_pc' = "raised"
               /\ UNCHANGED <<results, log>>
          ELSE /\ sq_pc' = "done"
               /\ results' = GatherResults(t_result, order)
               /\ log' = LogOf(variant, results')
    /\ UNCHANGED <<variant, t_stage, prim_out, sec_out, prim_calls, sec_calls,
                    t_result, order>>
    /\ UNCHANGED <<bvars, ovars>>

\* ------------------------------------------------------ batch_scrape_mpns
\* The input list: row m of the CSV holds MPN MpnAt(m); rows may repeat an MPN.
MpnAt(m) == ((m - 1) % NumDistinctMpns) + 1

mpns == [m \in Mpns |-> MpnAt(m)]

\* What adapter v answers for the MPN of task m in world w.
OutcomeCycle == <<"found", "raise", "not_found", "none">>

BatchOutcome(w, m, v) == OutcomeCycle[((w + m + v) % Len(OutcomeCycle)) + 1]

\* scrape_single_mpn_async: gather every adapter with return_exceptions=True,
\* then result_dict[vendor] = result for a truthy non-exception result and
\* None for an exception or a falsy result; returns (mpn, result_dict).
scrape_single_mpn_async(w, m) ==
    LET outs == [v \in Adapters |-> OutcomeValue(v, "plain", BatchOutcome(w, m, v))]
    IN [kind |-> "tuple",
        mpn |-> mpns[m],
        dict |-> [v \in Adapters |->
                    IF IsException(outs[v]) THEN NoneValue
                    ELSE IF Truthy(outs[v]) THEN outs[v]
                    ELSE NoneValue]]

\* The exception of a per-MPN task, as the batch gather hands it back.
TaskException == [kind |-> "Exception", mpn |-> 0, dict |-> <<>>]

\* What the task of MPN m ended with.
TaskValue(w, st, m) ==
    IF st[m] = "raised" THEN TaskException ELSE scrape_single_mpn_async(w, m)

\* Variant of CanAcquire that admits every task at once.
CanAcquireAlways(value) == TRUE

\* Variant of SemAfterExit that releases only when the body returned.
SemAfterExitNoRelease(value, raised) == IF raised THEN value ELSE value + 1

\* Variant of SemAfterExit that never hands the permit back.
SemAfterExitLeak(value, raised) == value

\* semaphore.acquire() proceeds only while a permit is left.
CanAcquire(value) == value > 0

\* "async with semaphore": __aexit__ releases the permit whether the body
\* returned or raised.
SemAfterExit(value, raised) == value + 1

StartBatch(w) ==
    /\ Idle
    /\ b_pc' = "gather"
    /\ world' = w
    /\ b_state' = [m \in Mpns |-> "waiting"]
    /\ sem' = SemaphoreLimit
    /\ UNCHANGED <<all_results, valid_results, b_errors, out_of_order>>
    /\ UNCHANGED <<svars, ovars>>

\* bounded_scrape enters "async with semaphore".
Acquire(m) ==
    /\ b_pc = "gather"
    /\ b_state[m] = "waiting"
    /\ CanAcquire(sem)
    /\ sem' = sem - 1
    /\ b_state' = [b_state EXCEPT ![m] = "running"]
    /\ UNCHANGED <<b_pc, world, all_results, valid_results, b_errors, out_of_order>>
    /\ UNCHANGED <<svars, ovars>>

\* bounded_scrape leaves "async with semaphore": the per-MPN work returned
\* its tuple, or an exception escaped it.
FinishMpn(m, fault) ==
    /\ b_pc = "gather"
    /\ b_state[m] = "running"
    /\ b_state' = [b_state EXCEPT ![m] = IF fault THEN "raised" ELSE "returned"]
    /\ sem' = SemAfterExit(sem, fault)
    /\ out_of_order' = (out_of_order \/
                          \E j \in Mpns : j < m /\ b_state[j] \in {"waiting", "running"})
    /\ UNCHANGED <<b_pc, world, all_results, valid_results, b_errors>>
    /\ UNCHANGED <<svars, ovars>>

\* Variant of ReturnExceptionsBatch: the gather called without the flag.
ReturnExceptionsBatchOff == FALSE

\* Variant of FilterValid whose loop appends every entry, failed or not.
FilterKeepsFailures(all) == all

\* return_exceptions=True of the gather in batch_scrape_mpns.
ReturnExceptionsBatch == TRUE

\* The loop over all_results: an exception is logged, anything else is
\* appended to valid_results.
FilterValid(all) == SelectSeq(all, LAMBDA r : ~IsException(r))

\* logger.error("Batch task failed: %s", res), once per exception.
CountErrors(all) == Len(SelectSeq(all, IsException))

AllEnded == \A m \in Mpns : b_state[m] \in {"returned", "raised"}
SomeTaskRaised == \E m \in Mpns : b_state[m] = "raised"

\* The code after the batch gather.
BatchReturn ==
    /\ b_pc = "gather"
    /\ GatherReady(AllEnded, SomeTaskRaised, ReturnExceptionsBatch)
    /\ IF ~ReturnExceptionsBatch /\ SomeTaskRaised
          THEN /\ b_pc' = "raised"
               /\ UNCHANGED <<all_results, valid_results, b_errors>>
          ELSE /\ b_pc' = "done"
               /\ all_results' = [m \in Mpns |-> TaskValue(world, b_state, m)]
               /\ valid_results' = FilterValid(all_results')
               /\ b_errors' = CountErrors(all_results')
    /\ UNCHANGED <<world, b_state, sem, out_of_order>>
    /\ UNCHANGED <<svars, ovars>>

\* ------------------------------------------------------- adapter lookups
\* One scrape(mpn) of one adapter class against one vendor response.
LookupAdapters ==
    {"digicor", "mwave", "jw_computers_http", "scorptec_http",
     "pc_case_gear_http", "ebay_playwright", "scorptec_old", "umart_old"}

VendorIdOf(a) ==
    CASE a = "digicor"           -> "digicor"
      [] a = "mwave"             -> "mwave"
      [] a = "jw_computers_http" -> "jw_computers"
      [] a = "scorptec_http"     -> "scorptec"
      [] a = "pc_case_gear_http" -> "pc_case_gear"
      [] a = "ebay_playwright"   -> "ebay_au"
      [] a = "scorptec_old"      -> "scorptec"
      [] a = "umart_old"         -> "umart"

\* A not_found that still names the MPN that was searched for.
NotFoundKeepsMpn(a) == FullResult(VendorIdOf(a), NoUrl, InputMpn, NoPrice, FALSE)

\* The class attribute not_found of every adapter that has one:
\* PriceResult(vendor_id=vendor_id, url=None, mpn=None, price=None,
\*             currency=None, found=False)
NotFoundSentinel(a) == FullResult(VendorIdOf(a), NoUrl, NoText, NoPrice, FALSE)

\* The product URL of a found product (its value plays no role here).
ProductUrl == 1

\* DigicorScraper.scrape_sync
digicor_scrape_sync(mpn, page) ==
    IF page.status = "error" THEN NotFoundSentinel("digicor")
    ELSE IF ~page.product THEN NotFoundSentinel("digicor")
    \* select_one("li") is None: AttributeError on .get_text()
    ELSE IF page.sku = NoText THEN RaisedError
    ELSE IF LastToken(page.sku) # mpn THEN NotFoundSentinel("digicor")
    \* select_one("span.price") is None: AttributeError on .get_text()
    ELSE IF page.price = NoPrice THEN RaisedError
    ELSE FullResult("digicor", ProductUrl, mpn, page.price, TRUE)

\* MwaveScraper.scrape_sync
mwave_scrape_sync(mpn, page) ==
    IF page.status = "error" THEN NotFoundSentinel("mwave")
    ELSE IF page.sku = NoText \/ LastToken(page.sku) # mpn
         THEN NotFoundSentinel("mwave")
    ELSE IF page.price = NoPrice THEN NotFoundSentinel("mwave")
    ELSE FullResult("mwave", ProductUrl, mpn, page.price, TRUE)

\* JWComputersScraper.scrape of jw_computer_scraper_http.py
jw_http_scrape(mpn, page) ==
    IF page.status = "error" THEN NotFoundSentinel("jw_computers_http")
    ELSE IF ~page.product THEN NotFoundSentinel("jw_computers_http")
    ELSE IF page.sku = NoText \/ page.sku # mpn
         THEN NotFoundSentinel("jw_computers_http")
    \* 'if not final_price': None and 0 are both falsy
    ELSE IF page.price = NoPrice \/ page.price = 0
         THEN NotFoundSentinel("jw_computers_http")
    ELSE FullResult("jw_computers", ProductUrl, mpn, page.price, TRUE)

\* ScorptecScraper.scrape of scorptec_scraper_http.py; re.sub(r'[^\d.]', '')
\* drops a sign before float()
scorptec_http_scrape(mpn, page) ==
    IF page.status = "error" THEN NotFoundSentinel("scorptec_http")
    ELSE IF ~page.product THEN NotFoundSentinel("scorptec_http")
    ELSE IF lower(page.sku) # lower(mpn) THEN NotFoundSentinel("scorptec_http")
    ELSE IF page.price = NoPrice THEN NotFoundSentinel("scorptec_http")
    ELSE FullResult("scorptec", ProductUrl, mpn, Abs(page.price), TRUE)

\* PCCaseGearScraper.scrape of pc_case_gear_scraper_http.py: a non-200 status
\* and every exception end in not_found
pccg_http_scrape(mpn, page) ==
    IF page.status = "error" THEN NotFoundSentinel("pc_case_gear_http")
    ELSE IF ~page.product THEN NotFoundSentinel("pc_case_gear_http")
    ELSE IF page.sku = NoText \/ page.sku # mpn
         THEN NotFoundSentinel("pc_case_gear_http")
    \* 'if not price': None and 0 are both falsy
    ELSE IF page.price = NoPrice \/ page.price = 0
         THEN NotFoundSentinel("pc_case_gear_http")
    ELSE FullResult("pc_case_gear", ProductUrl, mpn, page.price, TRUE)

\* EbayScraper._validate_mpn: the Item Specifics value (methods 1 and 2) has
\* to equal the MPN up to case; method 3 accepts a title that contains it.
validate_mpn(page, mpn) ==
    \/ lower(mpn) = lower(page.sku)
    \/ Contains(lower(page.title), lower(mpn))

\* EbayScraper.scrape of ebay_scraper_playwright.py with _scrape_product_page;
\* the search loop only visits items whose title contains the MPN, and
\* _parse_price keeps digits, commas and the point only.
ebay_playwright_scrape(mpn, page) ==
    IF page.status = "error" THEN NotFoundSentinel("ebay_playwright")
    ELSE IF ~page.product THEN NotFoundSentinel("ebay_playwright")
    ELSE IF ~Contains(lower(page.title), lower(mpn))
         THEN NotFoundSentinel("ebay_playwright")
    ELSE IF ~validate_mpn(page, mpn) THEN NotFoundSentinel("ebay_playwright")
    ELSE IF page.price = NoPrice THEN NotFoundSentinel("ebay_playwright")
    ELSE FullResult("ebay_au", ProductUrl, mpn, Abs(page.price), TRUE)

\* ScorptecScraper.scrape of scrapers/scorptec_scraper.py (registered by
\* main.py and utils.py): re-raises the HTTP error and raises ValueError for
\* "Product not found" and "Price element not found". Its PriceResult has no
\* found field; a returned result means the product was found.
scorptec_old_scrape(mpn, page) ==
    IF page.status = "error" THEN RaisedError
    ELSE IF page.sku = NoText \/ page.sku # mpn THEN RaisedError
    ELSE IF page.price = NoPrice THEN RaisedError
    ELSE FullResult("scorptec", ProductUrl, mpn, page.price, TRUE)

\* UmartScraper.scrape of scrapers/umart_scraper.py (registered by main.py and
\* utils.py): page.goto is not guarded, every miss is 'return None', and the
\* final PriceResult(...) omits the required field found, which pydantic
\* rejects with a ValidationError.
umart_old_scrape(mpn, page) ==
    IF page.status = "error" THEN RaisedError
    ELSE IF ~page.product THEN ReturnedNone
    ELSE IF page.sku = NoText \/ page.sku # mpn THEN ReturnedNone
    ELSE IF page.price = NoPrice THEN ReturnedNone
    ELSE RaisedError

scrape(a, mpn, page) ==
    CASE a = "digicor"           -> digicor_scrape_sync(mpn, page)
      [] a = "mwave"             -> mwave_scrape_sync(mpn, page)
      [] a = "jw_computers_http" -> jw_http_scrape(mpn, page)
      [] a = "scorptec_http"     -> scorptec_http_scrape(mpn, page)
      [] a = "pc_case_gear_http" -> pccg_http_scrape(mpn, page)
      [] a = "ebay_playwright"   -> ebay_playwright_scrape(mpn, page)
      [] a = "scorptec_old"      -> scorptec_old_scrape(mpn, page)
      [] a = "umart_old"         -> umart_old_scrape(mpn, page)

Lookup(a, page) ==
    /\ Idle
    /\ lk_pc' = "done"
    /\ lk_adapter' = a
    /\ lk_page' = page
    /\ lk_ret' = scrape(a, InputMpn, page)
    /\ UNCHANGED <<svars, bvars, cvars, dvars, hvars, fvars, pvars, xvars>>

\* --------------------------------------------------------- lowest price
\* scrape_mpn_single's default scraper list, by vendor_id, in its order.
Registry ==
    <<"digicor", "scorptec", "mwave", "pc_case_gear", "jw_computers", "umart",
      "ebay_au">>

\* The prices a found entry may carry here.
CsvPrices == {0, 95, 100}

\* What result_dict may hold for the vendor registered at position i: None
\* (the lookup raised or returned nothing), a not-found result, a found one.
CsvEntries(i) ==
    {ReturnedNone, FullResult(Registry[i], NoUrl, NoText, NoPrice, FALSE)}
    \cup {FullResult(Registry[i], i, InputMpn, p, TRUE) : p \in CsvPrices}

NoLowest == [price |-> NoPrice, vendor |-> "", url |-> NoUrl]

\* One pass of 'for vendor_name, data in result_dict.items()':
\*   if data and data.price is not None:
\*       if lowest_price is None or data.price < lowest_price: ...
LowestStep(best, data) ==
    IF data.kind # "None" /\ data.price # NoPrice
       /\ (best.price = NoPrice \/ data.price < best.price)
    THEN [price |-> data.price, vendor |-> data.vendor_id, url |-> data.url]
    ELSE best

RECURSIVE LowestUpTo(_, _)
LowestUpTo(dict, k) ==
    IF k = 0 THEN NoLowest ELSE LowestStep(LowestUpTo(dict, k - 1), dict[k])

\* 'float(lowest_price) if lowest_price else None': None and 0 are falsy
FloatIfTruthy(p) == IF p = NoPrice \/ p = 0 THEN NoPrice ELSE p

\* The row write_results_to_csv writes for one (mpn, result_dict).
CsvRow(dict) ==
    LET best == LowestUpTo(dict, Len(dict))
    IN  [lowest_price        |-> FloatIfTruthy(best.price),
         lowest_price_vendor |-> best.vendor,
         lowest_price_url    |-> best.url,
         vendor_price        |-> [k \in 1..Len(dict) |->
                                    IF dict[k].kind # "None"
                                    THEN dict[k].price ELSE NoPrice]]

\* min() of a non-empty set of prices
Min(S) == CHOOSE p \in S : \A q \in S : p <= q

\* The dashboard batch tab's 'Best Price':
\*   prices = [float(res.price) for res in results if res.price]
\*   lowest_price = min(prices) if prices else None
\* (res.price of None raises AttributeError)
BestPrice(res) ==
    LET truthy == {res[k].price : k \in {j \in 1..Len(res) :
                        FloatIfTruthy(res[j].price) # NoPrice}}
    IN  IF \E k \in 1..Len(res) : res[k].kind = "None" THEN "AttributeError"
        ELSE IF truthy = {} THEN "None"
        ELSE "found"

BestPriceValue(res) ==
    LET truthy == {res[k].price : k \in {j \in 1..Len(res) :
                        FloatIfTruthy(res[j].price) # NoPrice}}
    IN  IF BestPrice(res) = "found" THEN Min(truthy) ELSE NoPrice

\* Every result_dict, one entry per registered vendor.
DictInputs ==
    {d \in [Adapters -> UNION {CsvEntries(i) : i \in Adapters}] :
        \A i \in Adapters : d[i] \in CsvEntries(i)}

\* The lowest-price computations applied to one MPN's per-vendor results.
ComputeLowest(dict) ==
    /\ Idle
    /\ cw_pc' = "done"
    /\ cw_dict' = dict
    /\ cw_row' = CsvRow(dict)
    /\ cw_best' = [outcome |-> BestPrice(dict), price |-> BestPriceValue(dict)]
    /\ UNCHANGED <<svars, bvars, lvars, dvars, hvars, fvars, pvars, xvars>>

\* -------------------------------------------------------------- database
\* Prices count thousandths of a dollar, so 0.01 is 10.
Tolerance == 10

\* The prices handed to process_and_save_result directly: 100.00, 100.004,
\* 100.01 and 101.00, or no price.
DbPrices == {100000, 100004, 100010, 101000}
DbVendors == {1, 2}
DbMpn == 1

\* The ids of the rows of (mpn, vendor_name)
RowsOf(tbl, mpn, vendor_name) ==
    {k \in 1..Len(tbl) : tbl[k].mpn = mpn /\ tbl[k].vendor_name = vendor_name}

\* ORDER BY p.scraped_at ASC
RECURSIVE OrderAsc(_, _)
OrderAsc(tbl, ids) ==
    IF ids = {} THEN <<>>
    ELSE LET k == CHOOSE x \in ids :
                      \A y \in ids : tbl[x].scraped_at <= tbl[y].scraped_at
         IN  <<k>> \o OrderAsc(tbl, ids \ {k})

\* ORDER BY p.scraped_at DESC
RECURSIVE OrderDesc(_, _)
OrderDesc(tbl, ids) ==
    IF ids = {} THEN <<>>
    ELSE LET k == CHOOSE x \in ids :
                      \A y \in ids : tbl[y].scraped_at <= tbl[x].scraped_at
         IN  <<k>> \o OrderDesc(tbl, ids \ {k})

\* A history read oldest first.
get_price_history_ascending(tbl, mpn, vendor_name) ==
    LET ids == OrderAsc(tbl, RowsOf(tbl, mpn, vendor_name))
    IN  [k \in 1..Len(ids) |-> tbl[ids[k]]]

\* DatabaseManager.get_price_history: the rows of (mpn, vendor), newest first
get_price_history(tbl, mpn, vendor_name) ==
    LET ids == OrderDesc(tbl, RowsOf(tbl, mpn, vendor_name))
    IN  [k \in 1..Len(ids) |-> tbl[ids[k]]]

\* DatabaseManager.get_or_create_product, as one step: the products table after
get_or_create_product(prods, mpn) ==
    IF \E k \in 1..Len(prods) : prods[k] = mpn THEN prods ELSE Append(prods, mpn)

\* DatabaseManager.add_price: the prices table after the INSERT
add_price(tbl, mpn, vendor_name, price, scraped_at) ==
    Append(tbl, [mpn |-> mpn, vendor_name |-> vendor_name, price |-> price,
                 scraped_at |-> scraped_at])

\* An UPDATE without the subselect: every row of (mpn, vendor) is touched.
update_price_timestamp_every_row(prods, tbl, mpn, vendor_name, scraped_at) ==
    IF ~(\E k \in 1..Len(prods) : prods[k] = mpn) THEN tbl
    ELSE [k \in 1..Len(tbl) |->
            IF k \in RowsOf(tbl, mpn, vendor_name)
            THEN [tbl[k] EXCEPT !.scraped_at = scraped_at] ELSE tbl[k]]

\* DatabaseManager.update_price_timestamp: the prices table after the UPDATE of
\* the row that ORDER BY scraped_at DESC LIMIT 1 selects
update_price_timestamp(prods, tbl, mpn, vendor_name, scraped_at) ==
    LET ids == OrderDesc(tbl, RowsOf(tbl, mpn, vendor_name))
    IN  IF ~(\E k \in 1..Len(prods) : prods[k] = mpn) \/ ids = <<>> THEN tbl
        ELSE [tbl EXCEPT ![ids[1]].scraped_at = scraped_at]

\* DatabaseManager.update_price_timestamp's return value: False when the
\* product is missing, else cursor.rowcount > 0
update_price_timestamp_returns(prods, tbl, mpn, vendor_name) ==
    /\ \E k \in 1..Len(prods) : prods[k] = mpn
    /\ RowsOf(tbl, mpn, vendor_name) # {}

\* A comparison that also counts a difference of exactly 0.01 as a change.
PriceChangedInclusive(latest_price, price) ==
    Abs(latest_price - price) >= Tolerance

\* abs(latest_price - price) > 0.01
PriceChanged(latest_price, price) == Abs(latest_price - price) > Tolerance

\* What process_and_save_result decides to do.
SaveOp(tbl, mpn, vendor_name, found, price) ==
    LET price_history == get_price_history(tbl, mpn, vendor_name)
    IN  IF ~found \/ price = NoPrice THEN "none"
        ELSE IF price_history = <<>> THEN "insert"
        ELSE IF PriceChanged(price_history[1].price, price) THEN "insert"
        ELSE "refresh"

\* process_and_save_result: the database after the call
process_and_save_result(db, mpn, vendor_name, found, price) ==
    LET op == SaveOp(db.prices, mpn, vendor_name, found, price)
    IN  CASE op = "none" -> db
          [] op = "insert" ->
               [products |-> get_or_create_product(db.products, mpn),
                prices   |-> add_price(db.prices, mpn, vendor_name, price,
                                       db.clock + 1),
                clock    |-> db.clock + 1]
          [] op = "refresh" ->
               [products |-> db.products,
                prices   |-> update_price_timestamp(db.products, db.prices, mpn,
                                                    vendor_name, db.clock + 1),
                clock    |-> db.clock + 1]

Database == [products |-> products, prices |-> prices, clock |-> clock]

LatestPrice(tbl, mpn, vendor_name) ==
    LET price_history == get_price_history(tbl, mpn, vendor_name)
    IN  IF price_history = <<>> THEN NoPrice ELSE price_history[1].price

\* One direct call process_and_save_result(mpn, vendor, found, price).
ProcessAndSave(vendor_name, found, price) ==
    /\ Idle \/ db_pc = "calls"
    /\ db_calls < MaxCalls
    /\ LET after == process_and_save_result(Database, DbMpn, vendor_name, found,
                                            price)
       IN  /\ products' = after.products
           /\ prices' = after.prices
           /\ clock' = after.clock
           /\ db_last' = [vendor |-> vendor_name, found |-> found,
                          price |-> price,
                          op |-> SaveOp(prices, DbMpn, vendor_name, found, price),
                          prior |-> LatestPrice(prices, DbMpn, vendor_name),
                          rows |-> Cardinality(RowsOf(prices, DbMpn, vendor_name))]
    /\ db_pc' = "calls"
    /\ db_calls' = db_calls + 1
    /\ UNCHANGED <<svars, bvars, lvars, cvars, hvars, fvars, pvars, xvars>>

\* ------------------------------------------------ dashboard, single tab
\* The MPN typed into the single tab.
DashMpn == 1

\* Index of the first entry that is an exception instance, 0 if there is none.
FirstException(res) ==
    IF \E k \in 1..Len(res) : IsException(res[k])
    THEN CHOOSE k \in 1..Len(res) :
             IsException(res[k]) /\ \A j \in 1..(k - 1) : ~IsException(res[j])
    ELSE 0

\* 'for res in results: process_and_save_result(mpn, vendor_names.get(...),
\*      found=res.found, price=float(res.price) if res.price else None)'
\* for the first k entries
RECURSIVE SaveUpTo(_, _, _, _)
SaveUpTo(db, res, mpn, k) ==
    IF k = 0 THEN db
    ELSE process_and_save_result(SaveUpTo(db, res, mpn, k - 1), mpn,
                                 res[k].vendor_id, res[k].found,
                                 FloatIfTruthy(res[k].price))

\* The rows of df_single
DisplayRows(res) ==
    [k \in 1..Len(res) |->
        [Vendor |-> res[k].vendor_id,
         Price  |-> FloatIfTruthy(res[k].price),
         Found  |-> res[k].found]]

\* The "Fetch Prices" handler after scrape_mpn_single returned: reading
\* res.vendor_id of an exception instance raises AttributeError, which ends
\* the script run before st.dataframe.
FetchPrices ==
    /\ sq_pc = "done"
    /\ variant = "default"
    /\ dash_pc = "idle"
    /\ LET n     == FirstException(results)
           saved == IF n = 0 THEN Len(results) ELSE n - 1
           after == SaveUpTo(Database, results, DashMpn, saved)
       IN  /\ products' = after.products
           /\ prices' = after.prices
           /\ clock' = after.clock
           /\ dash_pc' = IF n = 0 THEN "shown" ELSE "aborted"
           /\ dash_rows' = IF n = 0 THEN DisplayRows(results) ELSE <<>>
    /\ UNCHANGED <<db_pc, db_calls, db_last>>
    /\ UNCHANGED <<svars, bvars, lvars, cvars, fvars, pvars, xvars>>

\* ----------------------------------------------------- main, CSV branch
Columns == {"mpn", "name", "sku"}
Cells == {"", " ", "A"}

\* str.strip() of a cell
strip(c) == IF c = " " THEN "" ELSE c

\* A CSV file: whether it has a header line at all (csv.DictReader.fieldnames
\* is None for an empty file), its column names, and per data row the cell of
\* the column the MPNs are read from.
NoFile == [has_header |-> FALSE, columns |-> {}, rows |-> <<>>]

CsvFiles ==
    {NoFile}
    \cup [has_header : {TRUE}, columns : SUBSET Columns,
          rows : UNION {[1..n -> Cells] : n \in 0..MaxRows}]

\* How read_mpns_from_csv ends: 'mpn' in None raises TypeError
read_outcome(file) ==
    IF ~file.has_header THEN "TypeError"
    ELSE IF "mpn" \in file.columns \/ "name" \in file.columns THEN "returned"
    ELSE "ValueError"

\* mpns after 'for row in reader: if row.get(col, '').strip(): mpns.append(...)'
read_mpns_from_csv(file) ==
    LET kept == SelectSeq(file.rows, LAMBDA c : strip(c) # "")
    IN  [k \in 1..Len(kept) |-> strip(kept[k])]

\* main.py registers five scrapers
NumMainScrapers == 5

\* main()'s '--csv' branch: read_mpns_from_csv, batch_scrape_mpns,
\* write_results_to_csv
MainCsv(file) ==
    /\ Idle
    /\ csv_file' = file
    /\ IF read_outcome(file) = "returned"
       THEN /\ csv_pc' = "done"
            /\ rows_read' = Len(file.rows)
            /\ dispatched' = Len(read_mpns_from_csv(file)) * NumMainScrapers
            /\ csv_out' = read_mpns_from_csv(file)
       ELSE /\ csv_pc' = read_outcome(file)
            /\ rows_read' = 0
            /\ dispatched' = 0
            /\ csv_out' = <<>>
    /\ UNCHANGED <<svars, bvars, lvars, cvars, dvars, hvars, pvars, xvars>>

\* ------------------------------------------------- dashboard, batch tab
\* The keys of app.py's vendor_names
vendor_names ==
    {"scorptec", "mwave", "pc_case_gear", "jw_computers", "umart", "digicor"}

\* What the adapter registered at position i answers for MPN m in world w: a
\* fallback adapter and the eBay adapter turn every failure into not_found, a
\* plain adapter may raise.
TabOutcome(w, m, i) ==
    LET o == BatchOutcome(w, m, i)
    IN  IF o = "found" THEN "found"
        ELSE IF o = "raise" /\ DefaultKinds[i] = "plain" THEN "raise"
        ELSE "not_found"

\* scrape_mpn_single(mpn) with the full default scraper list
TabResults(w, m) ==
    [i \in 1..Len(Registry) |-> OutcomeValue(i, "primary", TabOutcome(w, m, i))]

\* vendor_names[res.vendor_id] raises KeyError for some entry
SomeKeyError(res) ==
    \E k \in 1..Len(res) : Registry[res[k].vendor_id] \notin vendor_names

\* "Start Batch Search": progress_bar = st.progress(0)
StartBatchSearch(w, n) ==
    /\ Idle
    /\ tab_pc' = "progress"
    /\ tab_world' = w
    /\ tab_n' = n
    /\ tab_i' = 0
    /\ progress' = 0
    /\ finished' = 0
    /\ tab_rows' = <<>>
    /\ UNCHANGED <<svars, bvars, lvars, cvars, dvars, hvars, fvars, xvars>>

\* progress_bar.progress((i + 1) / len(mpns_to_scan)), the first statement of
\* the loop body, before scrape_mpn_single(mpn) is run
ProgressAtLoopHead(i) == i + 1

\* The head of one pass of 'for i, mpn in enumerate(mpns_to_scan)'.
LoopHead ==
    /\ tab_pc = "progress"
    /\ tab_i < tab_n
    /\ progress' = ProgressAtLoopHead(tab_i)
    /\ tab_pc' = "scrape"
    /\ UNCHANGED <<tab_world, tab_n, tab_i, finished, tab_rows>>
    /\ UNCHANGED <<svars, bvars, lvars, cvars, dvars, hvars, fvars, xvars>>

\* The rest of the pass: scrape, save every result, build the row. An
\* exception entry raises AttributeError in the saving loop; a vendor_id that
\* vendor_names lacks raises KeyError while the row is built.
LoopBody ==
    /\ tab_pc = "scrape"
    /\ LET res   == TabResults(tab_world, tab_i + 1)
           n     == FirstException(res)
           saved == IF n = 0 THEN Len(res) ELSE n - 1
           after == SaveUpTo(Database, res, tab_i + 1, saved)
       IN  /\ products' = after.products
           /\ prices' = after.prices
           /\ clock' = after.clock
           /\ IF n # 0 \/ SomeKeyError(res)
              THEN /\ tab_pc' = "aborted"
                   /\ UNCHANGED <<tab_i, finished, tab_rows>>
              ELSE /\ tab_pc' = "progress"
                   /\ tab_i' = tab_i + 1
                   /\ finished' = finished + 1
                   /\ tab_rows' = Append(tab_rows,
                                     [MPN |-> tab_i + 1,
                                      BestPrice |-> BestPriceValue(res)])
    /\ UNCHANGED <<tab_world, tab_n, progress>>
    /\ UNCHANGED <<db_pc, db_calls, db_last>>
    /\ UNCHANGED <<svars, bvars, lvars, cvars, hvars, fvars, xvars>>

\* After the loop: success_rate = successful_count / len(mpns_to_scan) * 100
\* raises ZeroDivisionError for an empty list.
Summary ==
    /\ tab_pc = "progress"
    /\ tab_i = tab_n
    /\ tab_pc' = IF tab_n = 0 THEN "aborted" ELSE "done"
    /\ UNCHANGED <<tab_world, tab_n, tab_i, progress, finished, tab_rows>>
    /\ UNCHANGED <<svars, bvars, lvars, cvars, dvars, hvars, fvars, xvars>>

\* ------------------------------------------------- concurrent sessions
\* Two sessions call process_and_save_result(mpn, vendor, True, price) for the
\* same (mpn, vendor). Every DatabaseManager method opens its own connection
\* and commits, so the methods of the two calls interleave freely.
SesVendor == 1

\* The database the sessions start on: empty, the product alone, or the
\* product with one price record.
SesStarts == {"empty", "product", "record"}
SesPrices == {100000, 101000}

\* DatabaseManager.get_product_by_mpn: the row id, NoneId if there is no row
get_product_by_mpn(prods, mpn) ==
    IF \E k \in 1..Len(prods) : prods[k] = mpn
    THEN CHOOSE k \in 1..Len(prods) : prods[k] = mpn
    ELSE NoneId

\* DatabaseManager.add_product: cursor.lastrowid, or None when the UNIQUE
\* constraint on mpn raises sqlite3.IntegrityError
add_product_id(prods, mpn) ==
    IF get_product_by_mpn(prods, mpn) # NoneId THEN NoneId ELSE Len(prods) + 1

\* The products table after add_product
add_product(prods, mpn) ==
    IF get_product_by_mpn(prods, mpn) # NoneId THEN prods ELSE Append(prods, mpn)

StartSessions(start, p1, p2) ==
    /\ Idle
    /\ products' = IF start = "empty" THEN <<>> ELSE <<DbMpn>>
    /\ prices' = IF start = "record"
                 THEN add_price(<<>>, DbMpn, SesVendor, 100000, 1) ELSE <<>>
    /\ clock' = IF start = "record" THEN 1 ELSE 0
    /\ ses_rows' = IF start = "record" THEN 1 ELSE 0
    /\ ses_pc' = [c \in Sessions |-> "read"]
    /\ ses_price' = [c \in Sessions |-> IF c = 1 THEN p1 ELSE p2]
    /\ UNCHANGED <<ses_op, ses_pid>>
    /\ UNCHANGED <<db_pc, db_calls, db_last>>
    /\ UNCHANGED <<svars, bvars, lvars, cvars, hvars, fvars, pvars, utvars>>

\* price_history = db.get_price_history(mpn, vendor_name) and the branch on it
SesRead(c) ==
    /\ ses_pc[c] = "read"
    /\ LET op == SaveOp(prices, DbMpn, SesVendor, TRUE, ses_price[c])
       IN  /\ ses_op' = [ses_op EXCEPT ![c] = op]
           /\ ses_pc' = [ses_pc EXCEPT ![c] =
                            IF op = "insert" THEN "lookup" ELSE "update"]
    /\ UNCHANGED <<ses_price, ses_pid, ses_rows>>
    /\ UNCHANGED <<svars, bvars, lvars, cvars, dvars, hvars, fvars, pvars, utvars>>

\* add_price -> get_or_create_product: product = self.get_product_by_mpn(mpn)
SesLookup(c) ==
    /\ ses_pc[c] = "lookup"
    /\ LET id == get_product_by_mpn(products, DbMpn)
       IN  IF id # NoneId
           THEN /\ ses_pid' = [ses_pid EXCEPT ![c] = id]
                /\ ses_pc' = [ses_pc EXCEPT ![c] = "insert_price"]
           ELSE /\ ses_pc' = [ses_pc EXCEPT ![c] = "add_product"]
                /\ UNCHANGED ses_pid
    /\ UNCHANGED <<ses_price, ses_op, ses_rows>>
    /\ UNCHANGED <<svars, bvars, lvars, cvars, dvars, hvars, fvars, pvars, utvars>>

\* get_or_create_product: return self.add_product(mpn)
SesAddProduct(c) ==
    /\ ses_pc[c] = "add_product"
    /\ ses_pid' = [ses_pid EXCEPT ![c] = add_product_id(products, DbMpn)]
    /\ products' = add_product(products, DbMpn)
    /\ ses_pc' = [ses_pc EXCEPT ![c] = "insert_price"]
    /\ UNCHANGED <<ses_price, ses_op, ses_rows>>
    /\ UNCHANGED <<db_pc, prices, clock, db_calls, db_last>>
    /\ UNCHANGED <<svars, bvars, lvars, cvars, hvars, fvars, pvars, utvars>>

\* add_price's INSERT INTO prices: product_id None violates NOT NULL, the
\* sqlite3.Error is caught and logged and no row is written
SesInsertPrice(c) ==
    /\ ses_pc[c] = "insert_price"
    /\ IF ses_pid[c] = NoneId
       THEN UNCHANGED <<prices, clock>>
       ELSE /\ prices' = add_price(prices, DbMpn, SesVendor, ses_price[c],
                                   clock + 1)
            /\ clock' = clock + 1
    /\ ses_pc' = [ses_pc EXCEPT ![c] = "done"]
    /\ UNCHANGED <<ses_price, ses_op, ses_pid, ses_rows>>
    /\ UNCHANGED <<db_pc, products, db_calls, db_last>>
    /\ UNCHANGED <<svars, bvars, lvars, cvars, hvars, fvars, pvars, utvars>>

\* db.update_price_timestamp(mpn, vendor_name, datetime.now())
SesUpdate(c) ==
    /\ ses_pc[c] = "update"
    /\ prices' = update_price_timestamp(products, prices, DbMpn, SesVendor,
                                        clock + 1)
    /\ clock' = clock + 1
    /\ ses_pc' = [ses_pc EXCEPT ![c] = "done"]
    /\ UNCHANGED <<ses_price, ses_op, ses_pid, ses_rows>>
    /\ UNCHANGED <<db_pc, products, db_calls, db_last>>
    /\ UNCHANGED <<svars, bvars, lvars, cvars, hvars, fvars, pvars, utvars>>

\* ------------------------------------------ update_price_timestamp alone
\* One call of update_price_timestamp(DbMpn, SesVendor, t) on a database that
\* already holds up to MaxHist price records of two products and two vendors.
HistMpns == {1, 2}
HistVendors == {1, 2}
HistTimes == {1, 2, 3}
NewTimes == {0, 4}

\* Row k of a table: its price is told apart by its position.
HistRow(k, mpn, vendor_name, scraped_at) ==
    [mpn |-> mpn, vendor_name |-> vendor_name, price |-> 100000 + 1000 * k,
     scraped_at |-> scraped_at]

HistKeys == HistMpns \X HistVendors \X HistTimes

HistTables ==
    UNION {{[k \in 1..n |-> HistRow(k, f[k][1], f[k][2], f[k][3])] :
               f \in [1..n -> HistKeys]} : n \in 0..MaxHist}

\* The products tables: none, either product, or both.
HistProducts == {<<>>, <<1>>, <<2>>, <<1, 2>>}

\* prices.product_id references a row of products.
HistConsistent(prods, tbl) ==
    \A k \in 1..Len(tbl) : \E j \in 1..Len(prods) : prods[j] = tbl[k].mpn

UpdateTimestamp ==
    /\ Idle
    /\ \E prods \in HistProducts : \E tbl \in HistTables : \E t \in NewTimes :
        /\ HistConsistent(prods, tbl)
        /\ ut_before' = [products |-> prods, prices |-> tbl]
        /\ ut_call' = [mpn |-> DbMpn, vendor_name |-> SesVendor, scraped_at |-> t]
        /\ products' = prods
        /\ prices' = update_price_timestamp(prods, tbl, DbMpn, SesVendor, t)
        /\ ut_ret' = update_price_timestamp_returns(prods, tbl, DbMpn, SesVendor)
    /\ ut_pc' = "done"
    /\ UNCHANGED <<db_pc, clock, db_calls, db_last>>
    /\ UNCHANGED <<svars, bvars, lvars, cvars, hvars, fvars, pvars, sesvars>>

\* ------------------------------------------------------------------ Next
Next ==
    \/ \E v \in Variants : StartSingle(v)
    \/ \E i \in Adapters : \E o \in {"found", "found_zero", "not_found", "none", "raise"} :
          PlainComplete(i, o)
    \/ \E i \in Adapters : \E o \in StrategyOutcomes : PrimaryComplete(i, o)
    \/ \E i \in Adapters : \E o \in StrategyOutcomes : SecondaryComplete(i, o)
    \/ SingleReturn
    \/ \E w \in 0..(NumWorlds - 1) : StartBatch(w)
    \/ \E m \in Mpns : Acquire(m)
    \/ \E m \in Mpns : \E fault \in BOOLEAN : FinishMpn(m, fault)
    \/ BatchReturn
    \/ \E a \in LookupAdapters : \E page \in Pages : Lookup(a, page)
    \/ \E dict \in DictInputs : ComputeLowest(dict)
    \/ \E v \in DbVendors : \E found \in BOOLEAN :
          \E price \in DbPrices \cup {NoPrice} : ProcessAndSave(v, found, price)
    \/ FetchPrices
    \/ \E file \in CsvFiles : MainCsv(file)
    \/ \E w \in 0..(NumWorlds - 1) : \E n \in 0..MaxTabMpns :
          StartBatchSearch(w, n)
    \/ LoopHead
    \/ LoopBody
    \/ Summary
    \/ \E start \in SesStarts : \E p1 \in SesPrices : \E p2 \in SesPrices :
          StartSessions(start, p1, p2)
    \/ \E c \in Sessions : SesRead(c)
    \/ \E c \in Sessions : SesLookup(c)
    \/ \E c \in Sessions : SesAddProduct(c)
    \/ \E c \in Sessions : SesInsertPrice(c)
    \/ \E c \in Sessions : SesUpdate(c)
    \/ UpdateTimestamp

Spec == Init /\ [][Next]_vars

\* The event loop runs every task that is ready: a task waiting on the
\* semaphore is woken when a permit is free, a per-MPN lookup that was started
\* returns or raises, and the coroutine awaiting the gather resumes once the
\* gather is ready.
BatchFairness ==
    /\ \A m \in Mpns : WF_vars(Acquire(m))
    /\ \A m \in Mpns : WF_vars(\E fault \in BOOLEAN : FinishMpn(m, fault))
    /\ WF_vars(BatchReturn)

FairSpec == Spec /\ BatchFairness

\* ================================================================ claims
FoundResult(r) == r.kind = "PriceResult" /\ r.found
NotFoundResult(r) == r.kind = "PriceResult" /\ ~r.found

InFlight == Cardinality({m \in Mpns : b_state[m] = "running"})
Raised == {m \in Mpns : b_state[m] = "raised"}
Returned == {m \in Mpns : b_state[m] = "returned"}

\* s is a subsequence of t (greedy left-to-right matching).
RECURSIVE IsSubseqFrom(_, _, _, _)
IsSubseqFrom(s, t, i, j) ==
    IF i > Len(s) THEN TRUE
    ELSE IF j > Len(t) THEN FALSE
    ELSE IF s[i] = t[j] THEN IsSubseqFrom(s, t, i + 1, j + 1)
    ELSE IsSubseqFrom(s, t, i, j + 1)

IsSubsequence(s, t) == IsSubseqFrom(s, t, 1, 1)

\* C1: whatever the adapters did (found, not found, None, raised), the list
\* scrape_mpn_single returns has exactly one entry per registered adapter.
C1_LengthEqualsAdapters ==
    sq_pc = "done" => Len(results) = NumAdapters

C1_Witness ==
    /\ sq_pc = "done"
    /\ \E i \in Adapters : IsException(t_result[i])
    /\ \E i \in Adapters : FoundResult(t_result[i])
    /\ \E i \in Adapters : NotFoundResult(t_result[i])
    /\ Len(results) = NumAdapters

\* C2: entry i of the returned list is what adapter i's own task ended with,
\* for every completion order, and a PriceResult at position i is vendor i's.
C2_EntryIsOwnOutcome ==
    sq_pc = "done" =>
        /\ DOMAIN results = Adapters
        /\ \A i \in Adapters :
              /\ results[i] = t_result[i]
              /\ results[i].kind = "PriceResult" => results[i].vendor_id = i

\* The last registered adapter completed first and the first one last.
C2_Witness ==
    /\ sq_pc = "done"
    /\ order[1] = NumAdapters
    /\ order[NumAdapters] = 1
    /\ \A i \in Adapters : results[i] = t_result[i]

\* C3 (as stated): where an adapter raised, the returned list holds a
\* PriceResult with found=false, not the exception object.
C3_FailureBecomesNotFound ==
    sq_pc = "done" =>
        \A i \in Adapters :
            IsException(t_result[i]) => NotFoundResult(results[i])

\* C4: once an adapter has raised, the query still waits for every sibling,
\* returns normally, and each sibling's own result is in its own slot.
C4_FailureLeavesSiblings ==
    (sq_pc \in {"done", "raised"} /\ SomeRaised) =>
        /\ sq_pc = "done"
        /\ \A j \in Adapters :
              /\ t_stage[j] = "done"
              /\ results[j] = t_result[j]

\* An adapter raised first, a sibling found the product afterwards.
C4_Witness ==
    /\ sq_pc = "done"
    /\ IsException(t_result[order[1]])
    /\ \E j \in Adapters : FoundResult(t_result[j]) /\ results[j] = t_result[j]

\* C5: the MPNs of the batch output are a subsequence of the input list, so
\* at most N entries; an entry is missing exactly for each task that raised,
\* and each of those is logged as an error.
C5_OutputIsOrderedSubsequence ==
    b_pc = "done" =>
        /\ \A k \in 1..Len(valid_results) : valid_results[k].kind = "tuple"
        /\ IsSubsequence([k \in 1..Len(valid_results) |-> valid_results[k].mpn], mpns)
        /\ Len(valid_results) <= NumMpns
        /\ NumMpns - Len(valid_results) = Cardinality(Raised)
        /\ b_errors = Cardinality(Raised)

\* Tasks finished out of input order, one raised, the rest are in the output.
C5_Witness ==
    /\ b_pc = "done"
    /\ out_of_order
    /\ Cardinality(Raised) = 1
    /\ b_state[1] = "returned"
    /\ Len(valid_results) = NumMpns - 1
    /\ b_errors = 1

\* C6: never more than 5 per-MPN tasks inside the semaphore.
C6_AtMostFiveInFlight == InFlight <= SemaphoreLimit

\* Five tasks in flight while another waits at the semaphore.
C6_Witness ==
    /\ InFlight = SemaphoreLimit
    /\ \E m \in Mpns : b_state[m] = "waiting"

\* C7: permits available plus tasks in flight is always 5, also after a task
\* raised, and all 5 permits are back when the batch returns.
C7_PermitsConserved ==
    /\ sem + InFlight = SemaphoreLimit
    /\ b_pc = "done" => sem = SemaphoreLimit

\* A task raised inside the semaphore and the batch has returned.
C7_Witness ==
    /\ b_pc = "done"
    /\ Raised # {}
    /\ sem = SemaphoreLimit

\* C8: when some per-MPN task raised, the batch still returns normally, and
\* every MPN whose task returned is in the output with an entry for every
\* vendor, the found ones with their PriceResult.
C8_BatchSurvivesTaskFailure ==
    (b_pc \in {"done", "raised"} /\ Raised # {}) =>
        /\ b_pc = "done"
        /\ Len(valid_results) = Cardinality(Returned)
        /\ \A m \in Returned :
              \E k \in 1..Len(valid_results) :
                  /\ valid_results[k].kind = "tuple"
                  /\ valid_results[k].mpn = mpns[m]
                  /\ DOMAIN valid_results[k].dict = Adapters
                  /\ \A v \in Adapters :
                        BatchOutcome(world, m, v) = "found" =>
                            valid_results[k].dict[v] =
                                PriceResult(v, TRUE, PriceSeen(v, "plain"))

C8_Witness ==
    /\ b_pc = "done"
    /\ Raised # {}
    /\ Cardinality(Returned) >= 2
    /\ Len(valid_results) = Cardinality(Returned)

\* C9: when the primary scraper of a fallback adapter returned found=true,
\* the secondary scraper was not called and the adapter returned the
\* primary's result.
C9_PrimaryFoundSkipsSecondary ==
    \A i \in Adapters :
        FoundResult(prim_out[i]) =>
            /\ sec_calls[i] = 0
            /\ sec_out[i] = Pending
            /\ t_stage[i] = "done"
            /\ t_result[i] = prim_out[i]

C9_Witness ==
    /\ sq_pc = "done"
    /\ \E i \in Adapters :
          /\ FoundResult(prim_out[i])
          /\ sec_calls[i] = 0
          /\ results[i] = prim_out[i]

\* C10: when the primary scraper raised or returned found=false, the
\* secondary scraper is called, and what it returns (found or not) is what
\* the adapter returns.
C10_PrimaryMissRunsSecondary ==
    \A i \in Adapters :
        (IsException(prim_out[i]) \/ NotFoundResult(prim_out[i])) =>
            /\ sec_calls[i] = 1
            /\ t_stage[i] \in {"secondary", "done"}
            /\ (t_stage[i] = "done" /\ sec_out[i].kind = "PriceResult") =>
                   t_result[i] = sec_out[i]

\* One lookup where the primary raised and the secondary found the product.
C10_Witness ==
    \E i \in Adapters :
        /\ IsException(prim_out[i])
        /\ FoundResult(sec_out[i])
        /\ t_stage[i] = "done"
        /\ t_result[i] = sec_out[i]

\* The vendor was reached and answered with a page.
Answered == lk_pc = "done" /\ lk_page.status = "ok"

\* The vendor's recorded MPN is the input MPN, up to case and a label in front.
ExactMatch(page, mpn) ==
    page.sku # NoText /\ lower(LastToken(page.sku)) = lower(mpn)

\* C11: every PriceResult with found=false that an adapter returns, and every
\* one in the lists the coordinators return, has price, url and mpn all None.
C11_NotFoundCarriesNothing ==
    /\ (lk_pc = "done" /\ lk_ret.kind = "PriceResult" /\ ~lk_ret.found)
          => (lk_ret.price = NoPrice /\ lk_ret.url = NoUrl /\ lk_ret.mpn = NoText)
    /\ \A k \in 1..Len(results) :
          NotFoundResult(results[k]) => results[k].price = NoPrice
    /\ \A k \in 1..Len(valid_results) : \A v \in Adapters :
          NotFoundResult(valid_results[k].dict[v])
             => valid_results[k].dict[v].price = NoPrice

\* An adapter answered not-found for a page that shows a product with a
\* different part number, a price and a title.
C11_Witness ==
    /\ Answered
    /\ lk_page.product
    /\ lk_page.sku = <<"a", "b", "c">>
    /\ lk_page.price = 100
    /\ lk_ret.kind = "PriceResult"
    /\ ~lk_ret.found

\* C12: every PriceResult with found=true that an adapter returns has a price
\* that is present and not negative.
C12_FoundPriceNonNegative ==
    (lk_pc = "done" /\ lk_ret.kind = "PriceResult" /\ lk_ret.found)
       => (lk_ret.price # NoPrice /\ lk_ret.price >= 0)

\* C13: when the vendor answered but shows no product, no exactly matching
\* MPN or no price, scrape returns a PriceResult with found=false: it neither
\* raises nor returns None.
C13_NotFoundIsAResult ==
    (Answered /\ (~lk_page.product \/ ~ExactMatch(lk_page, InputMpn)
                  \/ lk_page.price = NoPrice))
       => (lk_ret.kind = "PriceResult" /\ ~lk_ret.found)

\* C14: found=true only when the vendor's recorded MPN equals the input MPN;
\* a text that merely contains it never gives found=true.
C14_FoundOnlyOnExactMatch ==
    (lk_pc = "done" /\ lk_ret.kind = "PriceResult" /\ lk_ret.found)
       => ExactMatch(lk_page, InputMpn)

\* The positions of cw_dict that hold a found result.
FoundAt == {k \in 1..Len(cw_dict) :
               cw_dict[k].kind = "PriceResult" /\ cw_dict[k].found}

\* The minimum price among the found results, and the first position with it.
MinFound == Min({cw_dict[k].price : k \in FoundAt})
FirstAtMin == Min({k \in FoundAt : cw_dict[k].price = MinFound})

\* C15: the lowest-price computation yields the vendor, price and URL of the
\* minimum price among the found results, the earliest vendor in registration
\* order on a tie, and nothing when no vendor found the item; the dashboard's
\* Best Price is that same minimum.
C15_LowestIsMinimumOfFound ==
    cw_pc = "done" =>
        IF FoundAt = {}
        THEN /\ cw_row.lowest_price = NoPrice
             /\ cw_row.lowest_price_vendor = ""
             /\ cw_row.lowest_price_url = NoUrl
        ELSE /\ cw_row.lowest_price = MinFound
             /\ cw_row.lowest_price_vendor = Registry[FirstAtMin]
             /\ cw_row.lowest_price_url = cw_dict[FirstAtMin].url
             /\ cw_best.outcome = "found" => cw_best.price = MinFound

\* The last direct call carried a usable price.
Usable == db_last.found /\ db_last.price # NoPrice

\* The last direct call was a first observation or a real price movement.
Moved ==
    /\ Usable
    /\ \/ db_last.prior = NoPrice
       \/ Abs(db_last.prior - db_last.price) > Tolerance

\* The rows of the last call's (mpn, vendor), oldest first.
LastKeyRows == OrderAsc(prices, RowsOf(prices, DbMpn, db_last.vendor))

C18_EveryVendorDisplayed ==
    (sq_pc = "done" /\ variant = "default" /\ dash_pc # "idle") =>
        /\ dash_pc = "shown"
        /\ Len(dash_rows) = NumAdapters
        /\ \A k \in 1..Len(dash_rows) :
              /\ dash_rows[k].Vendor = k
              /\ IsException(t_result[k]) => ~dash_rows[k].Found

\* C19: for a CSV input with neither an 'mpn' nor a 'name' column,
\* read_mpns_from_csv raises ValueError before any row is read, and the caller
\* starts no lookup and writes no output row.
C19_MissingColumnRaisesValueError ==
    (csv_pc # "idle" /\ "mpn" \notin csv_file.columns
                     /\ "name" \notin csv_file.columns) =>
        /\ csv_pc = "ValueError"
        /\ rows_read = 0
        /\ dispatched = 0
        /\ csv_out = <<>>

\* C20: whenever the batch progress shows k of N, at least k MPNs have
\* finished being processed, and when the batch has ended it shows N of N.
C20_ProgressCountsFinished ==
    tab_pc # "idle" =>
        /\ progress <= finished
        /\ tab_pc \in {"done", "aborted"} => progress = tab_n

\* C21: when the vendor answers with a blocked or non-success response, the
\* adapter propagates an error instead of returning a found=false result.
C21_BlockedResponsePropagates ==
    (lk_pc = "done" /\ lk_page.status = "error") => lk_ret.kind = "Exception"

\* C22: get_or_create_product always returns the id of the product row for the
\* MPN, never None, under any interleaving with another caller creating the
\* same MPN; and the products table never holds two rows with the same MPN.
C22_GetOrCreateReturnsId ==
    /\ \A c \in Sessions :
          (ses_pc[c] \in {"insert_price", "done"} /\ ses_op[c] = "insert")
              => /\ ses_pid[c] # NoneId
                 /\ ses_pid[c] \in 1..Len(products)
                 /\ products[ses_pid[c]] = DbMpn
    /\ \A j, k \in 1..Len(products) : products[j] = products[k] => j = k

\* C28: two interleaved process_and_save_result calls for the same
\* (mpn, vendor) and the same price insert at most one new price record
\* between them.
C28_AtMostOneInsertBetweenSessions ==
    (/\ \A c \in Sessions : ses_pc[c] = "done"
     /\ ses_price[1] = ses_price[2])
        => Cardinality(RowsOf(prices, DbMpn, SesVendor)) <= ses_rows + 1

\* C23: within one fallback-adapter lookup the primary scraper is invoked
\* exactly once and the secondary at most once; once the secondary has raised
\* or returned not-found the lookup is over and its outcome is final.
C23_SingleFallbackHop ==
    (sq_pc \in {"gather", "done"}) =>
        \A i \in Adapters :
            Kind(variant, i) = "fallback" =>
                /\ prim_calls[i] = 1
                /\ sec_calls[i] <= 1
                /\ sec_out[i] # Pending =>
                      /\ t_stage[i] = "done"
                      /\ t_result[i] = FallbackReturn(i, sec_out[i])

\* A finished query in which the secondary of a fallback adapter missed.
C23_Witness ==
    /\ sq_pc = "done"
    /\ \E i \in Adapters :
          /\ Kind(variant, i) = "fallback"
          /\ prim_calls[i] = 1
          /\ sec_calls[i] = 1
          /\ (IsException(sec_out[i]) \/ NotFoundResult(sec_out[i]))
          /\ results[i] = not_found(i)

\* C24: scrape_mpn_single and batch_scrape_mpns return only after every
\* lookup they dispatched has completed or failed: no deadline, no
\* cancellation, no early return with partial results.
C24_ReturnsAfterAllLookups ==
    /\ sq_pc \in {"done", "raised"} =>
          /\ AllDone
          /\ \A i \in Adapters : t_result[i] # Pending
          /\ sq_pc = "done" => \A i \in Adapters : results[i] = t_result[i]
    /\ b_pc \in {"done", "raised"} =>
          /\ AllEnded
          /\ b_pc = "done" => Len(all_results) = NumMpns

\* A batch over more MPNs than permits that has returned.
C24_Witness ==
    /\ b_pc = "done"
    /\ AllEnded
    /\ NumMpns > SemaphoreLimit
    /\ Len(all_results) = NumMpns
    /\ b_errors > 0

\* C27: a fallback adapter's scrape returns a PriceResult on every path and
\* lets no exception out: when both scrapers raise it returns its own
\* not_found sentinel.
C27_FallbackNeverRaises ==
    \A i \in Adapters :
        (sq_pc \in {"gather", "done"}
         /\ Kind(variant, i) \in {"fallback", "single"}
         /\ t_stage[i] = "done") =>
            /\ t_result[i].kind = "PriceResult"
            /\ t_result[i].vendor_id = i
            /\ IsException(sec_out[i]) => t_result[i] = not_found(i)

\* Both scrapers of a fallback adapter raised and the query returned.
C27_Witness ==
    /\ sq_pc = "done"
    /\ \E i \in Adapters :
          /\ Kind(variant, i) = "fallback"
          /\ IsException(prim_out[i])
          /\ IsException(sec_out[i])
          /\ results[i] = not_found(i)

\* C25: if every lookup eventually returns or raises, batch_scrape_mpns
\* eventually returns for any number of MPNs, more than 5 included: every task
\* waiting on the semaphore is eventually admitted and the batch never
\* deadlocks.
C25_BatchEventuallyReturns ==
    /\ (b_pc = "gather") ~> (b_pc = "done")
    /\ \A m \in Mpns :
          (b_pc = "gather" /\ b_state[m] = "waiting") ~> (b_state[m] = "running")

\* A batch over more MPNs than permits returned with every task's tuple.
C25_Witness ==
    /\ b_pc = "done"
    /\ NumMpns > SemaphoreLimit
    /\ sem = SemaphoreLimit
    /\ Len(valid_results) = NumMpns

\* The rows of (mpn, vendor) that no other row of the key is newer than.
MostRecent(tbl, mpn, vendor_name) ==
    {k \in RowsOf(tbl, mpn, vendor_name) :
        \A j \in RowsOf(tbl, mpn, vendor_name) :
            tbl[j].scraped_at <= tbl[k].scraped_at}

\* C26: update_price_timestamp(mpn, vendor, t) changes only the scraped_at of
\* the single most recent record of (mpn, vendor): prices, the number of
\* records and the records of other vendors and MPNs stay as they were; it
\* returns True when a record was updated, and False with the database
\* unchanged when the product is missing or has no record for the vendor.
C26_UpdateTouchesOnlyLatest ==
    ut_pc = "done" =>
        LET before == ut_before.prices
            key == RowsOf(before, ut_call.mpn, ut_call.vendor_name)
            known == \E j \in 1..Len(ut_before.products) :
                        ut_before.products[j] = ut_call.mpn
        IN  /\ products = ut_before.products
            /\ Len(prices) = Len(before)
            /\ \A k \in 1..Len(before) :
                  /\ prices[k].price = before[k].price
                  /\ prices[k].mpn = before[k].mpn
                  /\ prices[k].vendor_name = before[k].vendor_name
                  /\ k \notin key => prices[k] = before[k]
            /\ IF known /\ key # {}
               THEN /\ ut_ret = TRUE
                    /\ \E k \in MostRecent(before, ut_call.mpn, ut_call.vendor_name) :
                          /\ prices[k].scraped_at = ut_call.scraped_at
                          /\ \A j \in key \ {k} : prices[j] = before[j]
               ELSE /\ ut_ret = FALSE
                    /\ prices = before

\* The key has an older and a newer record beside another vendor's record,
\* and the newer one was refreshed.
C26_Witness ==
    /\ ut_pc = "done"
    /\ ut_ret = TRUE
    /\ Cardinality(RowsOf(prices, DbMpn, SesVendor)) = 2
    /\ Len(prices) = 3
    /\ \E k \in 1..Len(prices) :
          /\ prices[k].scraped_at = 4
          /\ ut_before.prices[k].scraped_at = 2
    /\ \E k \in RowsOf(prices, DbMpn, SesVendor) : prices[k].scraped_at = 1

\* C29: in every row write_results_to_csv produces, lowest_price,
\* lowest_price_vendor and lowest_price_url are all present or all absent,
\* and a present lowest_price equals the price column written for
\* lowest_price_vendor in that row, None entries and a price of 0 included.
C29_LowestColumnsAgree ==
    cw_pc = "done" =>
        \/ /\ cw_row.lowest_price = NoPrice
           /\ cw_row.lowest_price_vendor = ""
           /\ cw_row.lowest_price_url = NoUrl
        \/ /\ cw_row.lowest_price # NoPrice
           /\ cw_row.lowest_price_vendor # ""
           /\ cw_row.lowest_price_url # NoUrl
           /\ \E k \in 1..Len(cw_row.vendor_price) :
                 /\ Registry[k] = cw_row.lowest_price_vendor
                 /\ cw_row.vendor_price[k] = cw_row.lowest_price

\* C30: in the dashboard every result with found=true leads to exactly one
\* persistence action for its (mpn, vendor), a new record or a refresh, never
\* a no-op, for every non-negative price including 0; and no result with
\* found=false causes a write.
C30_FoundResultIsPersisted ==
    dash_pc = "shown" =>
        \A k \in 1..Len(results) :
            Cardinality(RowsOf(prices, DashMpn, results[k].vendor_id)) =
                (IF results[k].found THEN 1 ELSE 0)

====
